---- MODULE Spec2Model ----
(***************************************************************************)
(* Model of the VEA tools: the batch analyzer (tools/video_analyzer.py),   *)
(* the capability probe (cli.py), the link extractor and the worker pool   *)
(* of the bulk downloader (tools/download_shorts.py), the clipper          *)
(* (tools/video_clipper.py) and the Gemini analyzer (api/gemini_test.py).  *)
(*                                                                         *)
(* Strings are modelled as sequences of tokens, so that prefix tests,      *)
(* strip() and substring tests are computed and not assumed.  A file is a  *)
(* record [exists, text] whose text is a sequence of JSON tokens, so that  *)
(* a write in place has observable intermediate contents.                  *)
(***************************************************************************)
EXTENDS Integers, Sequences, FiniteSets, TLC

\* ---------------------------------------------------------------- bounds
MaxItems == 2
MaxPre == 1
MaxKills == 1

\* ------------------------------------------------------- batch analyzer
VARIABLES
    an_pc,          \* position of video_analyzer.main
    envGoogle,      \* os.getenv("GOOGLE_API_KEY") is set
    input,          \* the input JSON file: [root, items]
    delay,          \* args.delay
    file,           \* the result file at output_path: [exists, text]
    results,        \* main's accumulator `results`
    idx,            \* main's loop index (1-based, 0 before the loop)
    result,         \* the record process_video returned for item idx
    hist,           \* this run's history: calls made, failures seen
    crash,          \* kills so far and the records on disk at the last kill
    cli,            \* cli.main: its arguments, environment, position and effects
    lnk,            \* download_shorts.load_links: its input, position and output
    clp,            \* video_clipper.clip_video: its arguments, position and commands
    dl,             \* download_shorts.main: the pool, its jobs and the printed results
    gem             \* gemini_test.analyze_video_with_gemini: its position and calls

anVars == <<an_pc, envGoogle, input, delay, file, results, idx, result, hist, crash>>
vars == <<anVars, cli, lnk, clp, dl, gem>>

\* what a step of one tool leaves alone: the other tools
AnFrame == UNCHANGED <<cli, lnk, clp, dl, gem>>
CliFrame == UNCHANGED <<anVars, lnk, clp, dl, gem>>
LnkFrame == UNCHANGED <<anVars, cli, clp, dl, gem>>
ClpFrame == UNCHANGED <<anVars, cli, lnk, dl, gem>>
DlFrame == UNCHANGED <<anVars, cli, lnk, clp, gem>>
GemFrame == UNCHANGED <<anVars, cli, lnk, clp, dl>>

\* --delay, a float: its default, no delay, and a delay below zero
DefaultDelay == 4
NoDelay == 0
NegativeDelay == -1

NoField == "<absent>"
None == "<none>"

\* --- strings as token sequences
ErrorPrefix == "ERROR:"
DownloadFailedResponse == <<ErrorPrefix, "download failed">>
AnalyzeFailedResponse == <<ErrorPrefix, "Gemini failed", "exc">>
AnalysisText == <<"summary", "scores">>

StartsWithError(s) == Len(s) > 0 /\ s[1] = ErrorPrefix

\* --- input items: JSON values of the input array
ItemWithRemarks == [obj |-> TRUE, url |-> "u1", remarks |-> "r1"]
ItemNoRemarks == [obj |-> TRUE, url |-> "u2", remarks |-> NoField]
ItemNoUrl == [obj |-> TRUE, url |-> NoField, remarks |-> "r1"]
ItemNotObject == [obj |-> FALSE, url |-> NoField, remarks |-> NoField]
\* the element at position i: a work item (with remarks at the odd positions,
\* without at the even ones) or a malformed element in its place
ItemKindsAt(i) ==
    {IF i % 2 = 1 THEN ItemWithRemarks ELSE ItemNoRemarks, ItemNoUrl, ItemNotObject}

SeqsUpTo(S, n) == UNION {[1..k -> S] : k \in 0..n}

Inputs ==
    {[root |-> "list", items |-> s] :
        s \in UNION {{t \in [1..k -> {ItemWithRemarks, ItemNoRemarks, ItemNoUrl, ItemNotObject}] :
                        \A i \in 1..k : t[i] \in ItemKindsAt(i)} : k \in 0..MaxItems}}
    \cup {[root |-> r, items |-> <<>>] : r \in {"object", "missing", "badjson"}}

\* --- records and the result file
NoRec == [url |-> "", gemini_response |-> <<>>, remarks |-> ""]
PreRec == [url |-> "u0", gemini_response |-> AnalysisText, remarks |-> "r0"]

Tok(k) == [k |-> k, rec |-> NoRec]
RecTok(r) == [k |-> "rec", rec |-> r]

\* json.dumps(results, ...) : "[" record ... record "]"
JsonDumps(rs) == <<Tok("lb")>> \o [i \in 1..Len(rs) |-> RecTok(rs[i])] \o <<Tok("rb")>>

\* json.loads succeeds and yields a list
IsJsonList(text) ==
    /\ Len(text) >= 2
    /\ text[1].k = "lb"
    /\ text[Len(text)].k = "rb"
    /\ \A i \in 2..(Len(text) - 1) : text[i].k = "rec"

\* json.loads succeeds (a list, or the object "{}")
IsJson(text) == IsJsonList(text) \/ text = <<Tok("lbrace"), Tok("rbrace")>>

JsonList(text) == [i \in 1..(Len(text) - 2) |-> text[i + 1].rec]

AbsentFile == [exists |-> FALSE, text |-> <<>>]
FileOf(text) == [exists |-> TRUE, text |-> text]

InitialFiles ==
    {AbsentFile, FileOf(<<Tok("lb")>>), FileOf(<<Tok("lbrace"), Tok("rbrace")>>)}
    \cup {FileOf(JsonDumps(s)) : s \in SeqsUpTo({PreRec}, MaxPre)}

IsPrefix(s, t) == Len(s) <= Len(t) /\ \A i \in 1..Len(s) : s[i] = t[i]

\* faulty variant: the existing file is ignored and every run starts from nothing
LoadExistingResultsFresh(f) == <<>>

\* load_existing_results
LoadExistingResults(f) ==
    IF f.exists /\ IsJsonList(f.text) THEN JsonList(f.text) ELSE <<>>

\* faulty variant: only the root is validated, the elements are not
LoadInputJsonOkRootOnly(inp) == inp.root = "list"

ValidItem(item) == item.obj /\ item.url # NoField

\* load_input_json: the validation of the parsed data
LoadInputJsonOk(inp) ==
    /\ inp.root = "list"
    /\ \A i \in 1..Len(inp.items) : ValidItem(inp.items[i])

\* faulty variant: an absent remarks is passed on as it is
GetRemarksNoDefault(item) == item.remarks

\* item.get("remarks", "")
GetRemarks(item) == IF item.remarks = NoField THEN "" ELSE item.remarks

\* process_video's returned record
ProcessVideoResult(item, response) ==
    [url |-> item.url, gemini_response |-> response, remarks |-> GetRemarks(item)]

\* what load_existing_results finds at output_path
FileKind(f) ==
    IF ~f.exists THEN "absent"
    ELSE IF IsJsonList(f.text) THEN "list"
    ELSE IF IsJson(f.text) THEN "not_list"
    ELSE "unparsable"

NoHist == [fetchCalls |-> 0, analyzeCalls |-> 0, mkdirs |-> 0, writes |-> 0,
           loaded |-> <<>>, found |-> None, fetchFailed |-> {}, analyzeFailed |-> {},
           saved |-> 0, sleeps |-> 0, abortCause |-> None]

NoCrash == [kills |-> 0, prekill |-> <<>>, persistedAtKill |-> <<>>,
            torn |-> FALSE]

AnInit ==
    /\ an_pc = "start"
    /\ envGoogle \in BOOLEAN
    /\ input \in Inputs
    /\ delay \in {NegativeDelay, NoDelay, DefaultDelay}
    /\ file \in InitialFiles
    /\ results = <<>>
    /\ idx = 0
    /\ result = NoRec
    /\ hist = NoHist
    /\ crash = NoCrash

Abort(cause) ==
    /\ an_pc' = "aborted"
    /\ hist' = [hist EXCEPT !.abortCause = cause]

\* main: load_environment(); ensure_env("GOOGLE_API_KEY")
EnsureEnv ==
    /\ an_pc = "start"
    /\ IF envGoogle
       THEN an_pc' = "load_input" /\ UNCHANGED hist
       ELSE Abort("credential")
    /\ UNCHANGED <<envGoogle, input, delay, file, results, idx, result, crash>>
    /\ AnFrame

\* main: items = load_input_json(input_path)
LoadInputJson ==
    /\ an_pc = "load_input"
    /\ IF LoadInputJsonOk(input)
       THEN an_pc' = "load_existing" /\ UNCHANGED hist
       ELSE Abort("input")
    /\ UNCHANGED <<envGoogle, input, delay, file, results, idx, result, crash>>
    /\ AnFrame

\* faulty variant: a result file that is there but is no JSON array ends the run
LoadExistingStrict ==
    /\ an_pc = "load_existing"
    /\ IF file.exists /\ ~IsJsonList(file.text)
       THEN /\ results' = results
            /\ hist' = [hist EXCEPT !.found = FileKind(file), !.abortCause = "existing"]
            /\ an_pc' = "aborted"
       ELSE /\ results' = LoadExistingResults(file)
            /\ hist' = [hist EXCEPT !.loaded = LoadExistingResults(file),
                                    !.found = FileKind(file)]
            /\ an_pc' = "mkdir"
    /\ UNCHANGED <<envGoogle, input, delay, file, idx, result, crash>>
    /\ AnFrame

\* main: results = load_existing_results(output_path)
LoadExisting ==
    /\ an_pc = "load_existing"
    /\ results' = LoadExistingResults(file)
    /\ hist' = [hist EXCEPT !.loaded = LoadExistingResults(file), !.found = FileKind(file)]
    /\ an_pc' = "mkdir"
    /\ UNCHANGED <<envGoogle, input, delay, file, idx, result, crash>>
    /\ AnFrame

\* main: temp_dir.mkdir(parents=True, exist_ok=True)
MkTempDir ==
    /\ an_pc = "mkdir"
    /\ hist' = [hist EXCEPT !.mkdirs = @ + 1]
    /\ an_pc' = "loop"
    /\ UNCHANGED <<envGoogle, input, delay, file, results, idx, result, crash>>
    /\ AnFrame

\* main: for idx, item in enumerate(items, 1)
LoopNext ==
    /\ an_pc = "loop"
    /\ IF idx < Len(input.items)
       THEN idx' = idx + 1 /\ an_pc' = "download"
       ELSE idx' = idx /\ an_pc' = "done"
    /\ UNCHANGED <<envGoogle, input, delay, file, results, result, hist, crash>>
    /\ AnFrame

\* download_video: a path, or None on an exception, on info None, on a missing file
FetchOutcomes == {"ok", "exception", "no_info", "missing_file"}
DownloadVideoReturn(outcome) == IF outcome = "ok" THEN "path" ELSE None

CurrentItem == input.items[idx]

\* faulty variant: an item whose fetch failed is skipped without a record
DownloadVideoSkipsFailed ==
    /\ an_pc = "download"
    /\ \E o \in FetchOutcomes :
        /\ hist' = [hist EXCEPT !.fetchCalls = @ + 1,
                                !.fetchFailed = IF o = "ok" THEN @ ELSE @ \cup {idx}]
        /\ an_pc' = IF o = "ok" THEN "analyze" ELSE "delay_check"
    /\ UNCHANGED <<envGoogle, input, delay, file, results, idx, result, crash>>
    /\ AnFrame

\* faulty variant: an exception of the fetch is not caught and ends the run
DownloadVideoUncaught ==
    /\ an_pc = "download"
    /\ \E o \in FetchOutcomes :
        CASE o = "ok" ->
               /\ hist' = [hist EXCEPT !.fetchCalls = @ + 1]
               /\ an_pc' = "analyze"
               /\ result' = result
          [] o = "exception" ->
               /\ hist' = [hist EXCEPT !.fetchCalls = @ + 1, !.fetchFailed = @ \cup {idx},
                                       !.abortCause = "fetch"]
               /\ an_pc' = "aborted"
               /\ result' = result
          [] OTHER ->
               /\ hist' = [hist EXCEPT !.fetchCalls = @ + 1, !.fetchFailed = @ \cup {idx}]
               /\ an_pc' = "append"
               /\ result' = ProcessVideoResult(CurrentItem, DownloadFailedResponse)
    /\ UNCHANGED <<envGoogle, input, delay, file, results, idx, crash>>
    /\ AnFrame

\* faulty variant: the analysis is run although the fetch returned None
DownloadVideoNoEarlyReturn ==
    /\ an_pc = "download"
    /\ \E o \in FetchOutcomes :
        /\ hist' = [hist EXCEPT !.fetchCalls = @ + 1,
                                !.fetchFailed = IF o = "ok" THEN @ ELSE @ \cup {idx}]
        /\ an_pc' = "analyze"
    /\ UNCHANGED <<envGoogle, input, delay, file, results, idx, result, crash>>
    /\ AnFrame

\* process_video: video_path = download_video(url, temp_dir), and the early
\* return of the error record when it is None
DownloadVideo ==
    /\ an_pc = "download"
    /\ \E o \in FetchOutcomes :
        LET video_path == DownloadVideoReturn(o) IN
        IF video_path = None
        THEN /\ result' = ProcessVideoResult(CurrentItem, DownloadFailedResponse)
             /\ hist' = [hist EXCEPT !.fetchCalls = @ + 1, !.fetchFailed = @ \cup {idx}]
             /\ an_pc' = "append"
        ELSE /\ result' = result
             /\ hist' = [hist EXCEPT !.fetchCalls = @ + 1]
             /\ an_pc' = "analyze"
    /\ UNCHANGED <<envGoogle, input, delay, file, results, idx, crash>>
    /\ AnFrame

\* process_video: analyze_video_with_gemini inside try/except Exception
AnalyzeOutcomes == {"text", "raise"}
GeminiResponse(outcome) == IF outcome = "text" THEN AnalysisText ELSE AnalyzeFailedResponse

\* faulty variant: an exception of the analysis is not caught and ends the run
AnalyzeVideoUncaught ==
    /\ an_pc = "analyze"
    /\ \E o \in AnalyzeOutcomes :
        IF o = "raise"
        THEN /\ result' = result
             /\ hist' = [hist EXCEPT !.analyzeCalls = @ + 1, !.analyzeFailed = @ \cup {idx},
                                     !.abortCause = "analyze"]
             /\ an_pc' = "aborted"
        ELSE /\ result' = ProcessVideoResult(CurrentItem, GeminiResponse(o))
             /\ hist' = [hist EXCEPT !.analyzeCalls = @ + 1]
             /\ an_pc' = "append"
    /\ UNCHANGED <<envGoogle, input, delay, file, results, idx, crash>>
    /\ AnFrame

AnalyzeVideo ==
    /\ an_pc = "analyze"
    /\ \E o \in AnalyzeOutcomes :
        /\ result' = ProcessVideoResult(CurrentItem, GeminiResponse(o))
        /\ hist' = [hist EXCEPT !.analyzeCalls = @ + 1,
                                !.analyzeFailed = IF o = "raise" THEN @ \cup {idx} ELSE @]
    /\ an_pc' = "append"
    /\ UNCHANGED <<envGoogle, input, delay, file, results, idx, crash>>
    /\ AnFrame

\* faulty variant: the record is kept in memory and not saved after the item
AppendResultUnsaved ==
    /\ an_pc = "append"
    /\ results' = Append(results, result)
    /\ an_pc' = "delay_check"
    /\ UNCHANGED <<envGoogle, input, delay, file, idx, result, hist, crash>>
    /\ AnFrame

\* main: results.append(result)
AppendResult ==
    /\ an_pc = "append"
    /\ results' = Append(results, result)
    /\ an_pc' = "save_open"
    /\ UNCHANGED <<envGoogle, input, delay, file, idx, result, hist, crash>>
    /\ AnFrame

\* save_results_to_file: write_text opens output_path for writing, which
\* creates or truncates it in place
SaveOpen ==
    /\ an_pc = "save_open"
    /\ file' = FileOf(<<>>)
    /\ hist' = [hist EXCEPT !.writes = @ + 1]
    /\ an_pc' = "save_write"
    /\ UNCHANGED <<envGoogle, input, delay, results, idx, result, crash>>
    /\ AnFrame

\* save_results_to_file: the open raises OSError, which main does not catch
SaveOpenFail ==
    /\ an_pc = "save_open"
    /\ Abort("persistence")
    /\ UNCHANGED <<envGoogle, input, delay, file, results, idx, result, crash>>
    /\ AnFrame

\* save_results_to_file: the serialized text reaches the truncated file in
\* chunks as the writer's buffer is flushed: first what precedes the last
\* chunk, then, at the latest on close, the rest
SaveWrite ==
    /\ an_pc = "save_write"
    /\ file.text # JsonDumps(results)
    /\ LET text == JsonDumps(results) IN
       file' = FileOf(IF file.text = <<>> THEN SubSeq(text, 1, Len(text) - 1) ELSE text)
    /\ UNCHANGED <<an_pc, envGoogle, input, delay, results, idx, result, hist, crash>>
    /\ AnFrame

\* faulty variant: a failed write is passed over and the loop goes on
SaveWriteFailIgnored ==
    /\ an_pc = "save_write"
    /\ file.text # JsonDumps(results)
    /\ an_pc' = "delay_check"
    /\ UNCHANGED <<envGoogle, input, delay, file, results, idx, result, hist, crash>>
    /\ AnFrame

\* save_results_to_file: a write raises OSError, which main does not catch
SaveWriteFail ==
    /\ an_pc = "save_write"
    /\ file.text # JsonDumps(results)
    /\ Abort("persistence")
    /\ UNCHANGED <<envGoogle, input, delay, file, results, idx, result, crash>>
    /\ AnFrame

\* save_results_to_file returns
SaveClose ==
    /\ an_pc = "save_write"
    /\ file.text = JsonDumps(results)
    /\ hist' = [hist EXCEPT !.saved = @ + 1]
    /\ an_pc' = "delay_check"
    /\ UNCHANGED <<envGoogle, input, delay, file, results, idx, result, crash>>
    /\ AnFrame

\* faulty variant: the run also waits after the last item
DelayCheckAfterLast ==
    /\ an_pc = "delay_check"
    /\ an_pc' = IF delay > 0 THEN "sleep" ELSE "loop"
    /\ UNCHANGED <<envGoogle, input, delay, file, results, idx, result, hist, crash>>
    /\ AnFrame

\* main: if idx < len(items) and args.delay > 0
DelayCheck ==
    /\ an_pc = "delay_check"
    /\ an_pc' = IF idx < Len(input.items) /\ delay > 0 THEN "sleep" ELSE "loop"
    /\ UNCHANGED <<envGoogle, input, delay, file, results, idx, result, hist, crash>>
    /\ AnFrame

\* main: time.sleep(args.delay)
Sleep ==
    /\ an_pc = "sleep"
    /\ an_pc' = "loop"
    /\ hist' = [hist EXCEPT !.sleeps = @ + 1]
    /\ UNCHANGED <<envGoogle, input, delay, file, results, idx, result, crash>>
    /\ AnFrame

Running == {"start", "load_input", "load_existing", "mkdir", "loop", "download",
            "analyze", "append", "save_open", "save_write", "delay_check", "sleep"}

\* the records persisted before the in-flight item started
PersistedBefore ==
    CASE an_pc \in {"start", "load_input", "load_existing"} -> LoadExistingResults(file)
      [] an_pc \in {"save_open", "save_write"} -> SubSeq(results, 1, Len(results) - 1)
      [] OTHER -> results

\* the process is killed: memory is lost, the file stays as it is.  The result
\* file grows with every restart: kills are counted, and a run is killed only
\* while it holds no more records than one run on the largest initial file
Kill ==
    /\ an_pc \in Running
    /\ crash.kills < MaxKills
    /\ Len(results) <= MaxPre + MaxItems
    /\ crash' = [kills |-> crash.kills + 1, prekill |-> LoadExistingResults(file),
                 persistedAtKill |-> PersistedBefore,
                 torn |-> (an_pc = "save_write" /\ file.text # JsonDumps(results))]
    /\ an_pc' = "killed"
    /\ UNCHANGED <<envGoogle, input, delay, file, results, idx, result, hist>>
    /\ AnFrame

\* the tool is started again with the same input and output path
Restart ==
    /\ an_pc = "killed"
    /\ an_pc' = "start"
    /\ results' = <<>>
    /\ idx' = 0
    /\ result' = NoRec
    /\ hist' = NoHist
    /\ UNCHANGED <<envGoogle, input, delay, file, crash>>
    /\ AnFrame

AnNext ==
    \/ EnsureEnv
    \/ LoadInputJson
    \/ LoadExisting
    \/ MkTempDir
    \/ LoopNext
    \/ DownloadVideo
    \/ AnalyzeVideo
    \/ AppendResult
    \/ SaveOpen
    \/ SaveOpenFail
    \/ SaveWrite
    \/ SaveWriteFail
    \/ SaveClose
    \/ DelayCheck
    \/ Sleep

\* ------------------------------------------------------------ cli.py
CliArgs ==
    [gemini : BOOLEAN, openai_vision : BOOLEAN, openai_audio : BOOLEAN, all : BOOLEAN,
     video : {None, "video.mp4"}, audio : {None, "audio.mp3"}]

NoCalls == [gemini |-> 0, vision |-> 0, transcribe |-> 0, extract |-> 0, remove |-> 0]

\* the state of cli.main before it runs
CliStart(args, google, openai, ffmpeg) ==
    [pc |-> "parse", args |-> args, google |-> google, openai |-> openai,
     ffmpeg |-> ffmpeg, audio_path |-> None, cleanup |-> FALSE,
     tempFile |-> FALSE, userAudio |-> (args.audio # None), calls |-> NoCalls,
     transcribed |-> None, removeFailed |-> FALSE]

CliIdle ==
    CliStart([gemini |-> FALSE, openai_vision |-> FALSE, openai_audio |-> FALSE,
              all |-> FALSE, video |-> None, audio |-> None], FALSE, FALSE, FALSE)

CliInit ==
    \E args \in CliArgs, google \in BOOLEAN, openai \in BOOLEAN, ffmpeg \in BOOLEAN :
        cli = CliStart(args, google, openai, ffmpeg)

\* main: parser.error unless a test flag is given
CliParse ==
    /\ cli.pc = "parse"
    /\ cli' = [cli EXCEPT !.pc =
                 IF cli.args.gemini \/ cli.args.openai_vision
                    \/ cli.args.openai_audio \/ cli.args.all
                 THEN "gemini" ELSE "usage_error"]
    /\ CliFrame

\* main: the Gemini section up to ensure_env("GOOGLE_API_KEY")
CliGemini ==
    /\ cli.pc = "gemini"
    /\ cli' = [cli EXCEPT !.pc =
                 IF cli.args.gemini \/ cli.args.all
                 THEN IF cli.args.video = None THEN "vision"
                      ELSE IF cli.google THEN "gemini_run" ELSE "aborted"
                 ELSE "vision"]
    /\ CliFrame

\* main: analyze_video_with_gemini inside try/except Exception
CliGeminiRun ==
    /\ cli.pc = "gemini_run"
    /\ \E raised \in BOOLEAN :
        cli' = [cli EXCEPT !.pc = "vision", !.calls.gemini = @ + 1]
    /\ CliFrame

\* main: the OpenAI vision section up to ensure_env("OPENAI_API_KEY")
CliVision ==
    /\ cli.pc = "vision"
    /\ cli' = [cli EXCEPT !.pc =
                 IF cli.args.openai_vision \/ cli.args.all
                 THEN IF cli.args.video = None THEN "audio"
                      ELSE IF cli.openai THEN "vision_run" ELSE "aborted"
                 ELSE "audio"]
    /\ CliFrame

\* main: analyze_video_with_openai inside try/except Exception
CliVisionRun ==
    /\ cli.pc = "vision_run"
    /\ \E raised \in BOOLEAN :
        cli' = [cli EXCEPT !.pc = "audio", !.calls.vision = @ + 1]
    /\ CliFrame

\* main: the OpenAI audio section: ensure_env("OPENAI_API_KEY"), then the
\* choice of the audio path
CliAudio ==
    /\ cli.pc = "audio"
    /\ IF ~(cli.args.openai_audio \/ cli.args.all)
       THEN cli' = [cli EXCEPT !.pc = "exit"]
       ELSE IF ~cli.openai
       THEN cli' = [cli EXCEPT !.pc = "aborted"]
       ELSE IF cli.args.audio = None /\ cli.args.video # None /\ cli.ffmpeg
       THEN cli' = [cli EXCEPT !.pc = "extract", !.audio_path = None, !.cleanup = FALSE]
       ELSE IF cli.args.audio = None
       THEN cli' = [cli EXCEPT !.pc = "exit", !.audio_path = None, !.cleanup = FALSE]
       ELSE cli' = [cli EXCEPT !.pc = "transcribe", !.audio_path = cli.args.audio,
                               !.cleanup = FALSE]
    /\ CliFrame

\* extract_audio_from_video: mkstemp, then ffmpeg; when ffmpeg fails the
\* temporary file is removed again, an OSError of the removal ignored.
\* main: cleanup = audio_path is not None
CliExtract ==
    /\ cli.pc = "extract"
    /\ \E ok \in BOOLEAN, removed \in BOOLEAN :
        cli' = [cli EXCEPT !.calls.extract = @ + 1,
                           !.tempFile = ok \/ ~removed,
                           !.audio_path = IF ok THEN "temp.mp3" ELSE None,
                           !.cleanup = ok,
                           !.pc = IF ok THEN "transcribe" ELSE "exit"]
    /\ CliFrame

\* faulty variant: the cleanup is not in a finally block and is passed over
\* when the transcription raises
CliTranscribeNoFinally ==
    /\ cli.pc = "transcribe"
    /\ \E raised \in BOOLEAN :
        cli' = [cli EXCEPT !.pc = IF raised THEN "exit" ELSE "cleanup",
                           !.calls.transcribe = @ + 1,
                           !.transcribed = IF raised THEN "raised" ELSE "ok"]
    /\ CliFrame

\* main: transcribe_audio_with_openai inside try/except Exception
CliTranscribe ==
    /\ cli.pc = "transcribe"
    /\ \E raised \in BOOLEAN :
        cli' = [cli EXCEPT !.pc = "cleanup", !.calls.transcribe = @ + 1,
                           !.transcribed = IF raised THEN "raised" ELSE "ok"]
    /\ CliFrame

\* os.path.exists(path), for the temporary file and for the user's file
PathExists(c, path) == IF path = "temp.mp3" THEN c.tempFile ELSE c.userAudio

\* os.remove(path) has removed the file
Removed(c, path) ==
    IF path = "temp.mp3" THEN [c EXCEPT !.tempFile = FALSE]
    ELSE [c EXCEPT !.userAudio = FALSE]

\* main: finally: if cleanup and audio_path and os.path.exists(audio_path):
\* os.remove(audio_path), an OSError ignored
CliCleanup ==
    /\ cli.pc = "cleanup"
    /\ IF cli.cleanup /\ cli.audio_path # None /\ PathExists(cli, cli.audio_path)
       THEN \E removed \in BOOLEAN :
               cli' = [(IF removed THEN Removed(cli, cli.audio_path) ELSE cli)
                          EXCEPT !.pc = "exit", !.calls.remove = @ + 1,
                                 !.removeFailed = ~removed]
       ELSE cli' = [cli EXCEPT !.pc = "exit"]
    /\ CliFrame

CliNext ==
    \/ CliParse
    \/ CliGemini
    \/ CliGeminiRun
    \/ CliVision
    \/ CliVisionRun
    \/ CliAudio
    \/ CliExtract
    \/ CliTranscribe
    \/ CliCleanup

\* ------------------------------------- download_shorts.py: load_links
MaxLinks == 3
MaxDictList == 2

\* strings: "sp" is a whitespace character, "yt" the substring youtube.com,
\* "be" the substring youtu.be; the other tokens are other characters
UrlA == <<"yt", "a">>
UrlB == <<"be", "b">>
StrPool == {UrlA, <<"sp">> \o UrlA, UrlA \o <<"sp">>, UrlB, <<"x">>}

\* JSON values inside a list: a string, a number, an object {"url": s}
JsonStr(x) == [t |-> "str", s |-> x]
Values ==
    {JsonStr(x) : x \in StrPool} \cup {[t |-> "num", s |-> <<"5">>], [t |-> "obj", s |-> UrlA]}
DictListValues == {JsonStr(UrlA), JsonStr(<<"sp">> \o UrlA), [t |-> "num", s |-> <<"5">>]}

\* str(x)
Str(x) ==
    CASE x.t = "str" -> x.s
      [] x.t = "num" -> x.s
      [] OTHER -> <<"{'url': '">> \o x.s \o <<"'}">>

\* the values of an object's keys: a list, a string or a number
DictValues ==
    {[t |-> "list", items |-> l, s |-> <<>>] : l \in SeqsUpTo(DictListValues, MaxDictList)}
    \cup {[t |-> "str", items |-> <<>>, s |-> UrlB], [t |-> "num", items |-> <<>>, s |-> <<"5">>]}

Keys == {"videos", "other"}
DictEntries ==
    {<<>>}
    \cup {<<[k |-> k, v |-> v]>> : k \in Keys, v \in DictValues}
    \cup UNION {{<<[k |-> k1, v |-> v1], [k |-> k2, v |-> v2]>> :
                    k2 \in Keys \ {k1}, v1 \in DictValues, v2 \in DictValues} : k1 \in Keys}

ListRoot(items) == [t |-> "list", items |-> items, entries |-> <<>>]
Roots ==
    {ListRoot(l) : l \in SeqsUpTo(Values, MaxLinks)}
    \cup {[t |-> "dict", items |-> <<>>, entries |-> e] : e \in DictEntries}
    \cup {[t |-> "scalar", items |-> <<>>, entries |-> <<>>]}

Range(s) == {s[i] : i \in 1..Len(s)}

RECURSIVE Flatten(_)
Flatten(ss) == IF ss = <<>> THEN <<>> ELSE Head(ss) \o Flatten(Tail(ss))

\* json_key in data and isinstance(data[json_key], list)
HasKeyList(data, json_key) ==
    \E i \in 1..Len(data.entries) :
        data.entries[i].k = json_key /\ data.entries[i].v.t = "list"

KeyList(data, json_key) ==
    LET i == CHOOSE j \in 1..Len(data.entries) : data.entries[j].k = json_key
    IN data.entries[i].v.items

\* the fallback over data.values(): the strings of the lists, and the strings
FallbackOf(v) ==
    CASE v.t = "list" ->
           LET IsStr(x) == x.t = "str"
               strs == SelectSeq(v.items, IsStr)
           IN [i \in 1..Len(strs) |-> strs[i].s]
      [] v.t = "str" -> <<v.s>>
      [] OTHER -> <<>>

Fallback(data) == Flatten([i \in 1..Len(data.entries) |-> FallbackOf(data.entries[i].v)])

StrAll(items) == [i \in 1..Len(items) |-> Str(items[i])]

\* faulty variant: an object without the designated key is rejected
RawLinksStrictKey(data, json_key) ==
    CASE data.t = "list" -> [status |-> "ok", links |-> StrAll(data.items)]
      [] data.t = "dict" /\ HasKeyList(data, json_key) ->
           [status |-> "ok", links |-> StrAll(KeyList(data, json_key))]
      [] OTHER -> [status |-> "error", links |-> <<>>]

\* load_links: the links taken from the root, or ValueError
RawLinks(data, json_key) ==
    CASE data.t = "list" -> [status |-> "ok", links |-> StrAll(data.items)]
      [] data.t = "dict" ->
           IF HasKeyList(data, json_key)
           THEN [status |-> "ok", links |-> StrAll(KeyList(data, json_key))]
           ELSE [status |-> "ok", links |-> Fallback(data)]
      [] OTHER -> [status |-> "error", links |-> <<>>]

\* u.strip()
RECURSIVE LStrip(_)
LStrip(u) == IF u # <<>> /\ Head(u) = "sp" THEN LStrip(Tail(u)) ELSE u
RECURSIVE RStrip(_)
RStrip(u) ==
    IF u # <<>> /\ u[Len(u)] = "sp" THEN RStrip(SubSeq(u, 1, Len(u) - 1)) ELSE u
Strip(u) == RStrip(LStrip(u))

\* "youtube.com" in u or "youtu.be" in u
IsYoutube(u) == \E i \in 1..Len(u) : u[i] \in {"yt", "be"}

\* [u.strip() for u in links if ... ("youtube.com" in u or "youtu.be" in u)]
FilterStrip(links) ==
    LET kept == SelectSeq(links, IsYoutube)
    IN [i \in 1..Len(kept) |-> Strip(kept[i])]

RECURSIVE UniqFrom(_, _, _)
UniqFrom(links, i, uniq) ==
    IF i > Len(links) THEN uniq
    ELSE UniqFrom(links, i + 1,
                  IF links[i] \in Range(uniq) THEN uniq ELSE Append(uniq, links[i]))

\* faulty variant: the last occurrence of a link wins
RECURSIVE UniqLastFrom(_, _)
UniqLastFrom(links, i) ==
    IF i > Len(links) THEN <<>>
    ELSE IF \E j \in (i + 1)..Len(links) : links[j] = links[i]
         THEN UniqLastFrom(links, i + 1)
         ELSE <<links[i]>> \o UniqLastFrom(links, i + 1)
UniqKeepLast(links) == UniqLastFrom(links, 1)

\* the seen/uniq loop
Uniq(links) == UniqFrom(links, 1, <<>>)

\* faulty variant: duplicates are removed before the links are stripped
NormalizeDedupFirst(links) == FilterStrip(Uniq(links))

\* load_links: filter, strip, then remove duplicates
Normalize(links) == Uniq(FilterStrip(links))

LoadLinksOf(data, json_key) ==
    LET raw == RawLinks(data, json_key)
    IN IF raw.status = "error" THEN raw
       ELSE [status |-> "ok", links |-> Normalize(raw.links)]

NoOut == [status |-> "none", links |-> <<>>]

LnkInit ==
    \E data \in Roots, json_key \in {"videos", "links"} :
        lnk = [pc |-> "start", data |-> data, json_key |-> json_key,
               orig |-> data, out |-> NoOut, first |-> <<>>]

\* links = load_links(args.json_path, args.json_key)
LoadLinks ==
    /\ lnk.pc \in {"start", "start2"}
    /\ lnk' = [lnk EXCEPT !.out = LoadLinksOf(lnk.data, lnk.json_key),
                          !.pc = IF lnk.pc = "start" THEN "loaded" ELSE "loaded2"]
    /\ LnkFrame

\* the returned list is written out as a flat JSON list and given back as input
Reinject ==
    /\ lnk.pc = "loaded"
    /\ lnk.out.status = "ok"
    /\ lnk' = [lnk EXCEPT !.data = ListRoot([i \in 1..Len(lnk.out.links) |->
                                               JsonStr(lnk.out.links[i])]),
                          !.first = lnk.out.links,
                          !.out = NoOut,
                          !.pc = "start2"]
    /\ LnkFrame

LnkNext ==
    \/ LoadLinks
    \/ Reinject

LnkIdle ==
    [pc |-> "idle", data |-> ListRoot(<<>>), json_key |-> "videos",
     orig |-> ListRoot(<<>>), out |-> NoOut, first |-> <<>>]


\* --------------------------- gemini_test.py: analyze_video_with_gemini
MaxPolls == 3
MaxParts == 2

\* file.state.name of the uploaded file
FileStates == {"PROCESSING", "ACTIVE", "FAILED", "STATE_UNSPECIFIED"}

\* the texts of a response: resp.text and the texts of the parts of its first
\* candidate; <<>> is a text that is None or empty
ModelText == <<"summary", "scores">>
PartTexts == {<<>>, <<"summary">>, <<"scores">>}
\* resp: candidates is FALSE when resp.candidates[0].content.parts cannot be read
Responses ==
    {[text |-> ModelText, candidates |-> TRUE, parts |-> <<ModelText>>]}
    \cup {[text |-> <<>>, candidates |-> TRUE, parts |-> ps] :
             ps \in SeqsUpTo(PartTexts, MaxParts)}
    \cup {[text |-> <<>>, candidates |-> FALSE, parts |-> <<>>]}
NoResp == [text |-> <<>>, candidates |-> FALSE, parts |-> <<>>]

\* str(resp)
ReprOf(resp) == <<"GenerateContentResponse(...)">>

\* "\n".join(texts)
RECURSIVE JoinLines(_)
JoinLines(texts) ==
    IF texts = <<>> THEN <<>>
    ELSE IF Len(texts) = 1 THEN Head(texts)
    ELSE Head(texts) \o <<"\n">> \o JoinLines(Tail(texts))

\* the value analyze_video_with_gemini returns for resp
ReturnValue(resp) ==
    IF resp.text # <<>> THEN resp.text
    ELSE IF resp.candidates
    THEN LET HasText(t) == t # <<>> IN JoinLines(SelectSeq(resp.parts, HasText))
    ELSE ReprOf(resp)

GemStart ==
    [pc |-> "start", state |-> None, seen |-> <<>>, polls |-> 0, generateCalls |-> 0,
     resp |-> NoResp, ret |-> <<>>, cause |-> None]

GemIdle == [GemStart EXCEPT !.pc = "idle"]

GemInit == gem = GemStart

\* file = client.files.upload(file=video_path)
GemUpload ==
    /\ gem.pc = "start"
    /\ \E o \in FileStates \cup {"raise"} :
        IF o = "raise"
        THEN gem' = [gem EXCEPT !.pc = "raised", !.cause = "upload"]
        ELSE gem' = [gem EXCEPT !.pc = "poll", !.state = o, !.seen = <<o>>]
    /\ GemFrame

\* while file.state.name == "PROCESSING": sleep, file = client.files.get(...)
GemPoll ==
    /\ gem.pc = "poll"
    /\ gem.state = "PROCESSING"
    /\ gem.polls < MaxPolls
    /\ \E o \in FileStates \cup {"raise"} :
        IF o = "raise"
        THEN gem' = [gem EXCEPT !.pc = "raised", !.cause = "get", !.polls = @ + 1]
        ELSE gem' = [gem EXCEPT !.state = o, !.seen = Append(@, o), !.polls = @ + 1]
    /\ GemFrame

\* faulty variant: the state the polling ended in is not looked at
GemCheckStateUnchecked ==
    /\ gem.pc = "poll"
    /\ gem.state # "PROCESSING"
    /\ gem' = [gem EXCEPT !.pc = "generate"]
    /\ GemFrame

\* if file.state.name != "ACTIVE": raise RuntimeError
GemCheckState ==
    /\ gem.pc = "poll"
    /\ gem.state # "PROCESSING"
    /\ IF gem.state # "ACTIVE"
       THEN gem' = [gem EXCEPT !.pc = "raised", !.cause = "state"]
       ELSE gem' = [gem EXCEPT !.pc = "generate"]
    /\ GemFrame

\* resp = client.models.generate_content(model=model, contents=[file, prompt])
GemGenerate ==
    /\ gem.pc = "generate"
    /\ \/ gem' = [gem EXCEPT !.pc = "raised", !.cause = "generate", !.generateCalls = @ + 1]
       \/ \E r \in Responses :
            gem' = [gem EXCEPT !.pc = "respond", !.resp = r, !.generateCalls = @ + 1]
    /\ GemFrame

\* the return of resp.text, of the joined parts, or of str(resp)
GemReturn ==
    /\ gem.pc = "respond"
    /\ gem' = [gem EXCEPT !.pc = "returned", !.ret = ReturnValue(gem.resp)]
    /\ GemFrame

GemNext ==
    \/ GemUpload
    \/ GemPoll
    \/ GemCheckState
    \/ GemGenerate
    \/ GemReturn

\* process_video: the gemini_response of the record for this call of the analyzer
RecordResponse(g) == IF g.pc = "raised" THEN AnalyzeFailedResponse ELSE g.ret

\* ------------------------------------------ video_clipper.py: clip_video
MaxDuration == 6
MaxWindow == 3

\* -d/--duration: its default
DefaultClipDuration == 30

\* total_duration, in the unit of clip_duration: short ones, and a long one
Durations == 0..MaxDuration \cup {2 * DefaultClipDuration + 15}
\* clip_duration: an int, which argparse does not keep above zero
Windows == 0..MaxWindow \cup {DefaultClipDuration}

Min(a, b) == IF a < b THEN a ELSE b

\* faulty variant: the remainder gets no clip of its own
NumClipsFloor(total_duration, clip_duration) == total_duration \div clip_duration

\* int(total_duration // clip_duration) + (1 if total_duration % clip_duration > 0 else 0)
NumClips(total_duration, clip_duration) ==
    (total_duration \div clip_duration)
    + (IF total_duration % clip_duration > 0 THEN 1 ELSE 0)

\* the -ss and -t arguments of clip i (0-based)
StartTime(i, clip_duration) == i * clip_duration
EndTime(i, clip_duration, total_duration) == Min((i + 1) * clip_duration, total_duration)
ClipCommand(i, clip_duration, total_duration) ==
    [ss |-> StartTime(i, clip_duration),
     t |-> EndTime(i, clip_duration, total_duration) - StartTime(i, clip_duration)]

\* what subprocess.run of one ffmpeg command does
RunOutcomes == {"zero", "nonzero", "exception"}

ClpStart(ffmpeg, exists, readable, D, W) ==
    [pc |-> "start", ffmpeg |-> ffmpeg, exists |-> exists, readable |-> readable,
     total_duration |-> D, clip_duration |-> W, num_clips |-> 0, i |-> 0,
     cmds |-> <<>>, produced |-> 0, mkdirs |-> 0, ret |-> FALSE]

ClpIdle == [ClpStart(FALSE, FALSE, FALSE, 0, 0) EXCEPT !.pc = "idle"]

ClpInit ==
    \E ffmpeg \in BOOLEAN, exists \in BOOLEAN, readable \in BOOLEAN,
       D \in Durations, W \in Windows :
        clp = ClpStart(ffmpeg, exists, readable, D, W)

\* clip_video: check_ffmpeg, os.path.exists, mkdir, get_video_duration
ClipPrecheck ==
    /\ clp.pc = "start"
    /\ IF ~clp.ffmpeg \/ ~clp.exists
       THEN clp' = [clp EXCEPT !.pc = "returned", !.ret = FALSE]
       ELSE IF ~clp.readable
       THEN clp' = [clp EXCEPT !.pc = "returned", !.ret = FALSE, !.mkdirs = @ + 1]
       ELSE clp' = [clp EXCEPT !.pc = "plan", !.mkdirs = @ + 1]
    /\ ClpFrame

\* clip_video: num_clips = ...; a clip_duration of 0 raises ZeroDivisionError
\* outside the try block
ClipPlan ==
    /\ clp.pc = "plan"
    /\ IF clp.clip_duration = 0
       THEN clp' = [clp EXCEPT !.pc = "raised"]
       ELSE clp' = [clp EXCEPT !.pc = "loop",
                               !.num_clips = NumClips(clp.total_duration, clp.clip_duration)]
    /\ ClpFrame

\* faulty variant: a failed command is reported and the loop goes on
ClipOneContinues ==
    /\ clp.pc = "loop"
    /\ clp.i < clp.num_clips
    /\ \E o \in RunOutcomes :
        LET cmd == ClipCommand(clp.i, clp.clip_duration, clp.total_duration) IN
        IF o = "zero"
        THEN clp' = [clp EXCEPT !.cmds = Append(@, cmd), !.produced = @ + 1, !.i = @ + 1]
        ELSE clp' = [clp EXCEPT !.cmds = Append(@, cmd), !.i = @ + 1]
    /\ ClpFrame

\* clip_video: one pass of for i in range(num_clips): the command is run, and a
\* non-zero return code or an exception ends the function with False
ClipOne ==
    /\ clp.pc = "loop"
    /\ clp.i < clp.num_clips
    /\ \E o \in RunOutcomes :
        LET cmd == ClipCommand(clp.i, clp.clip_duration, clp.total_duration) IN
        IF o = "zero"
        THEN clp' = [clp EXCEPT !.cmds = Append(@, cmd), !.produced = @ + 1, !.i = @ + 1]
        ELSE clp' = [clp EXCEPT !.cmds = Append(@, cmd), !.pc = "returned", !.ret = FALSE]
    /\ ClpFrame

\* clip_video: the loop is over, return True
ClipReturn ==
    /\ clp.pc = "loop"
    /\ clp.i >= clp.num_clips
    /\ clp' = [clp EXCEPT !.pc = "returned", !.ret = TRUE]
    /\ ClpFrame

ClpNext ==
    \/ ClipPrecheck
    \/ ClipPlan
    \/ ClipOne
    \/ ClipReturn

\* ------------------------------------ download_shorts.py: main's pool
MaxJobs == 5
MaxWorkers == 2

\* --workers: its default
DefaultWorkers == 4

\* --workers is an int that argparse does not keep above zero
WorkerArgs == (-1)..MaxWorkers \cup {DefaultWorkers}

Max(a, b) == IF a > b THEN a ELSE b

\* the result of a job whose exception reached the pool
Raised == <<"raised">>

\* faulty variant: the exception of a download is not caught
DownloadOneUncaught(url, outcome) ==
    IF outcome = "ok" THEN <<"OK", url>> ELSE Raised

\* download_one: "OK  - url", or "FAIL- url -> e" for any Exception
DownloadOne(url, outcome) ==
    IF outcome = "ok" THEN <<"OK", url>> ELSE <<"FAIL", url, "exc">>

\* r.startswith("OK")
StartsWithOK(r) == Len(r) > 0 /\ r[1] = "OK"

\* the link of job j: load_links returns distinct links
LinkOf(j) == j

DlStart(n, workers) ==
    [pc |-> "start", n |-> n, workers |-> workers,
     state |-> [j \in 1..n |-> "none"], res |-> [j \in 1..n |-> <<>>],
     attempts |-> [j \in 1..n |-> 0], completed |-> <<>>,
     printed |-> <<>>, results |-> <<>>, ok |-> 0, fail |-> 0]

DlIdle == [DlStart(0, 1) EXCEPT !.pc = "idle"]

DlInit == \E n \in 0..MaxJobs, w \in WorkerArgs : dl = DlStart(n, w)

InFlight(d) == {j \in 1..d.n : d.state[j] = "running"}

\* main: SystemExit without links; else mk_ydl_opts, the executor is created
\* and ex.map submits one job per link, in the order of the list
DlSubmit ==
    /\ dl.pc = "start"
    /\ IF dl.n = 0
       THEN dl' = [dl EXCEPT !.pc = "exit_nolinks"]
       ELSE dl' = [dl EXCEPT !.pc = "running", !.state = [j \in 1..dl.n |-> "queued"]]
    /\ DlFrame

\* faulty variant: every queued job gets a thread of its own
DlTakeUnbounded ==
    /\ dl.pc = "running"
    /\ \E j \in 1..dl.n :
        /\ dl.state[j] = "queued"
        /\ \A k \in 1..(j - 1) : dl.state[k] # "queued"
        /\ dl' = [dl EXCEPT !.state[j] = "running", !.attempts[j] = @ + 1]
    /\ DlFrame

\* a worker thread of the pool takes the oldest queued job; the pool has
\* max(1, args.workers) threads at most
DlTake ==
    /\ dl.pc = "running"
    /\ Cardinality(InFlight(dl)) < Max(1, dl.workers)
    /\ \E j \in 1..dl.n :
        /\ dl.state[j] = "queued"
        /\ \A k \in 1..(j - 1) : dl.state[k] # "queued"
        /\ dl' = [dl EXCEPT !.state[j] = "running", !.attempts[j] = @ + 1]
    /\ DlFrame

\* download_one returns in a worker thread
DlFinish ==
    /\ dl.pc \in {"running", "aborted"}
    /\ \E j \in InFlight(dl), o \in {"ok", "exception"} :
        dl' = [dl EXCEPT !.state[j] = "done", !.res[j] = DownloadOne(LinkOf(j), o),
                         !.completed = Append(@, j)]
    /\ DlFrame

\* faulty variant: the results are taken as the jobs complete
NextResultAsCompleted(d) ==
    IF Len(d.printed) < Len(d.completed) THEN d.completed[Len(d.printed) + 1] ELSE 0

\* for res in ex.map(...): the iterator waits for the results in the order in
\* which the jobs were submitted; 0 while the next one is not there
NextResult(d) ==
    LET j == Len(d.printed) + 1
    IN IF j <= d.n /\ d.state[j] = "done" THEN j ELSE 0

\* main: print(res); results.append(res).  A job that raised makes the
\* iterator raise in main: the jobs still queued are cancelled, the running
\* ones end, and main ends with the exception
DlPrint ==
    /\ dl.pc = "running"
    /\ NextResult(dl) # 0
    /\ LET j == NextResult(dl) IN
       IF dl.res[j] = Raised
       THEN dl' = [dl EXCEPT !.pc = "aborted",
                             !.state = [k \in 1..dl.n |->
                                          IF @[k] = "queued" THEN "cancelled" ELSE @[k]]]
       ELSE dl' = [dl EXCEPT !.printed = Append(@, j), !.results = Append(@, dl.res[j])]
    /\ DlFrame

\* main: the summary: ok = sum(1 for r in results if r.startswith("OK")),
\* fail = len(results) - ok
DlSummary ==
    /\ dl.pc = "running"
    /\ Len(dl.printed) = dl.n
    /\ LET ok == Cardinality({i \in 1..Len(dl.results) : StartsWithOK(dl.results[i])})
       IN dl' = [dl EXCEPT !.pc = "done", !.ok = ok, !.fail = Len(dl.results) - ok]
    /\ DlFrame

DlNext ==
    \/ DlSubmit
    \/ DlTake
    \/ DlFinish
    \/ DlPrint
    \/ DlSummary

Init == AnInit /\ cli = CliIdle /\ lnk = LnkIdle /\ clp = ClpIdle /\ dl = DlIdle /\ gem = GemIdle

\* one run of the batch analyzer
Spec == Init /\ [][AnNext]_vars

\* runs of the batch analyzer that may be killed and started again
CrashNext ==
    \/ AnNext
    \/ Kill
    \/ Restart

\* the killed runs are run with the default --delay
InitCrash == Init /\ delay = DefaultDelay

SpecCrash == InitCrash /\ [][CrashNext]_vars

\* the batch analyzer at rest, for the specifications of the other tools
AnIdle ==
    /\ an_pc = "done"
    /\ envGoogle = FALSE
    /\ input = [root |-> "list", items |-> <<>>]
    /\ delay = NoDelay
    /\ file = AbsentFile
    /\ results = <<>>
    /\ idx = 0
    /\ result = NoRec
    /\ hist = NoHist
    /\ crash = NoCrash

InitCli == AnIdle /\ CliInit /\ lnk = LnkIdle /\ clp = ClpIdle /\ dl = DlIdle /\ gem = GemIdle

SpecCli == InitCli /\ [][CliNext]_vars

InitLinks == AnIdle /\ cli = CliIdle /\ LnkInit /\ clp = ClpIdle /\ dl = DlIdle /\ gem = GemIdle

SpecLinks == InitLinks /\ [][LnkNext]_vars

\* one run of the clipper
InitClip == AnIdle /\ cli = CliIdle /\ lnk = LnkIdle /\ ClpInit /\ dl = DlIdle /\ gem = GemIdle

SpecClip == InitClip /\ [][ClpNext]_vars

\* one run of the bulk downloader's pool
InitPool == AnIdle /\ cli = CliIdle /\ lnk = LnkIdle /\ clp = ClpIdle /\ DlInit /\ gem = GemIdle

SpecPool == InitPool /\ [][DlNext]_vars

\* one call of the Gemini analyzer
InitGemini ==
    AnIdle /\ cli = CliIdle /\ lnk = LnkIdle /\ clp = ClpIdle /\ dl = DlIdle /\ GemInit

SpecGemini == InitGemini /\ [][GemNext]_vars

\* ------------------------------------------------- batch analyzer claims
NumItems == Len(input.items)
OnDisk == LoadExistingResults(file)
NewRecords == SubSeq(results, Len(hist.loaded) + 1, Len(results))
PrekillRecords == crash.prekill
AfterLoad == (Running \ {"start", "load_input", "load_existing"}) \cup {"done"}

\* C1: a run that reaches the end of its loop leaves a result file with
\* exactly m + n records, m the records loaded at startup and n the input
\* items: every item yields one new record, whether it succeeded or failed.
C1_OneRecordPerItem ==
    an_pc = "done" =>
        /\ Len(OnDisk) = Len(hist.loaded) + NumItems
        /\ OnDisk = results
        /\ IsPrefix(hist.loaded, OnDisk)
        /\ (NumItems > 0 => file.exists /\ file.text = JsonDumps(results))

C1_Witness ==
    /\ an_pc = "done"
    /\ NumItems = MaxItems
    /\ Len(hist.loaded) = 1
    /\ hist.fetchFailed # {}
    /\ hist.analyzeCalls > 0
    /\ Len(OnDisk) = 1 + MaxItems

\* C2: after a kill that left the result file intact and a restart with the
\* same input and output path, every complete result file of the restarted
\* run starts with the records of the pre-kill file, in the same order, and the
\* finished run leaves exactly these records followed by one new record per item.
C2_ResumeKeepsRecords ==
    (crash.kills > 0 /\ ~crash.torn) =>
        /\ (IsJsonList(file.text) => IsPrefix(PrekillRecords, JsonList(file.text)))
        /\ (an_pc \in AfterLoad => IsPrefix(PrekillRecords, results))
        /\ (an_pc = "done" =>
                /\ SubSeq(OnDisk, 1, Len(PrekillRecords)) = PrekillRecords
                /\ Len(OnDisk) = Len(PrekillRecords) + NumItems)

C2_Witness ==
    /\ an_pc = "done"
    /\ crash.kills = 1
    /\ ~crash.torn
    /\ Len(PrekillRecords) = 2
    /\ NumItems = 2
    /\ Len(OnDisk) = 4

\* C3: once the run has started writing it, the result file is at every
\* instant a complete JSON array holding exactly the accumulated records of the
\* items finished so far (the accumulator with or without the record in flight).
C3_FileAlwaysComplete ==
    (hist.writes > 0 /\ an_pc \in Running \cup {"done"}) =>
        /\ file.exists
        /\ IsJsonList(file.text)
        /\ \/ JsonList(file.text) = results
           \/ JsonList(file.text) = SubSeq(results, 1, Len(results) - 1)

\* C4: after a kill at any point and a restart, the accumulator the next run
\* loads contains every record persisted before the in-flight item started.
C4_KillLosesOnlyInFlight ==
    (crash.kills > 0 /\ an_pc \in AfterLoad) =>
        IsPrefix(crash.persistedAtKill, hist.loaded)

\* C5: a failed fetch never aborts the run, and a finished run in which the
\* fetch of exactly one item failed and no analysis failed has made n fetch
\* calls and holds n new records, of which exactly the failed item's record
\* has a response starting with "ERROR:".
C5_FetchFailureIsolated ==
    /\ (an_pc = "aborted" => hist.abortCause \in {"credential", "input", "persistence"})
    /\ (an_pc = "done" /\ Cardinality(hist.fetchFailed) = 1 /\ hist.analyzeFailed = {}) =>
            /\ hist.fetchCalls = NumItems
            /\ Len(NewRecords) = NumItems
            /\ \A j \in 1..NumItems :
                  StartsWithError(NewRecords[j].gemini_response) <=> j \in hist.fetchFailed

C5_Witness ==
    /\ an_pc = "done"
    /\ NumItems = 2
    /\ hist.fetchFailed = {1}
    /\ hist.analyzeFailed = {}
    /\ hist.analyzeCalls = 1
    /\ StartsWithError(NewRecords[1].gemini_response)
    /\ ~StartsWithError(NewRecords[2].gemini_response)

\* C6: when the input root is not an array, or some element is not an object
\* or lacks url, the run never reaches the loop: no fetch or analyze call is
\* made, the scratch directory is not created and the result file is not
\* written, wherever the bad element stands.
Malformed(inp) ==
    \/ inp.root # "list"
    \/ \E i \in 1..Len(inp.items) : ~inp.items[i].obj \/ inp.items[i].url = NoField

C6_MalformedRejectedPreflight ==
    Malformed(input) =>
        /\ an_pc \in {"start", "load_input", "aborted", "killed"}
        /\ hist.fetchCalls = 0
        /\ hist.analyzeCalls = 0
        /\ hist.mkdirs = 0
        /\ hist.writes = 0
        /\ (an_pc = "aborted" /\ envGoogle => hist.abortCause = "input")

C6_Witness ==
    /\ an_pc = "aborted"
    /\ hist.abortCause = "input"
    /\ input.root = "list"
    /\ Len(input.items) = 2
    /\ ValidItem(input.items[1])
    /\ input.items[2] = ItemNoUrl
    /\ hist.fetchCalls = 0
    /\ hist.writes = 0

\* ------------------------------------------------------------ cli claims
GeminiSelected == (cli.args.gemini \/ cli.args.all) /\ cli.args.video # None
VisionSelected == (cli.args.openai_vision \/ cli.args.all) /\ cli.args.video # None
AudioSelected == cli.args.openai_audio \/ cli.args.all

CredentialMissing ==
    \/ GeminiSelected /\ ~cli.google
    \/ (VisionSelected \/ AudioSelected) /\ ~cli.openai

\* C7: when the credential of any selected service is missing, no analysis
\* or transcription call of any selected service is made.
C7_NoWorkWithoutCredentials ==
    CredentialMissing =>
        cli.calls.gemini = 0 /\ cli.calls.vision = 0 /\ cli.calls.transcribe = 0

\* ------------------------------------------------- link extractor claims
Loaded == lnk.pc \in {"loaded", "loaded2"} /\ lnk.out.status = "ok"

\* the retained links: filtered and stripped, duplicates still in
Retained == FilterStrip(RawLinks(lnk.data, lnk.json_key).links)

FirstIndex(s, x) == CHOOSE i \in 1..Len(s) : s[i] = x /\ \A j \in 1..(i - 1) : s[j] # x

\* C8: the output of load_links holds each retained URL exactly once, and
\* the URLs stand in the order of their first occurrence in the input.
C8_DedupFirstOccurrence ==
    Loaded =>
        LET out == lnk.out.links IN
        /\ \A i, j \in 1..Len(out) : i # j => out[i] # out[j]
        /\ Range(out) = Range(Retained)
        /\ \A i, j \in 1..Len(out) :
              i < j => FirstIndex(Retained, out[i]) < FirstIndex(Retained, out[j])

C8_Witness ==
    /\ lnk.pc = "loaded"
    /\ lnk.data.t = "list"
    /\ Retained = <<UrlA, UrlB, UrlA>>
    /\ lnk.out = [status |-> "ok", links |-> <<UrlA, UrlB>>]

\* C9: load_links applied to its own output, given back as a flat list,
\* returns that output unchanged: the same links in the same order.
C9_Idempotent ==
    lnk.pc = "loaded2" => lnk.out = [status |-> "ok", links |-> lnk.first]

C9_Witness ==
    /\ lnk.pc = "loaded2"
    /\ lnk.orig = ListRoot(<<JsonStr(<<"sp">> \o UrlA), JsonStr(UrlB), JsonStr(UrlA)>>)
    /\ lnk.first = <<UrlA, UrlB>>
    /\ lnk.out.links = <<UrlA, UrlB>>

\* C10 as claimed: load_links fails for every root that is neither a flat list
\* nor an object holding a list under the designated key.
C10_RejectsObjectWithoutKey ==
    (lnk.pc = "loaded"
     /\ ~(lnk.orig.t = "list" \/ (lnk.orig.t = "dict" /\ HasKeyList(lnk.orig, lnk.json_key))))
        => lnk.out.status = "error"

\* the strings an object holds: its string values and the strings of its lists
HeldStrings(data) ==
    UNION {LET v == data.entries[i].v IN
           CASE v.t = "str" -> {v.s}
             [] v.t = "list" -> {v.items[j].s : j \in {n \in 1..Len(v.items) : v.items[n].t = "str"}}
             [] OTHER -> {}
           : i \in 1..Len(data.entries)}

\* C10 as amended: load_links fails exactly for the roots that are neither a
\* list nor an object; an object without a list under the designated key is
\* not rejected: the YouTube strings it holds are returned, stripped.
C10_RejectsOnlyNonContainers ==
    lnk.pc = "loaded" =>
        /\ (lnk.out.status = "error" <=> lnk.orig.t \notin {"list", "dict"})
        /\ (lnk.orig.t = "dict" /\ ~HasKeyList(lnk.orig, lnk.json_key)) =>
              Range(lnk.out.links) =
                  {Strip(u) : u \in {h \in HeldStrings(lnk.orig) : IsYoutube(h)}}

C10_Witness ==
    /\ lnk.pc = "loaded"
    /\ lnk.orig.t = "dict"
    /\ ~HasKeyList(lnk.orig, lnk.json_key)
    /\ Len(lnk.orig.entries) = 2
    /\ lnk.out = [status |-> "ok", links |-> <<UrlA, UrlB>>]

\* ---------------------------------------------------------- clipper claims
\* ceil(D / W), stated without the code's arithmetic
\* clip_video returned True
ClipSucceeded == clp.pc = "returned" /\ clp.ret

CeilDiv(D, W) == CHOOSE n \in 0..D : n * W >= D /\ (n - 1) * W < D

\* C11: for every total duration D > 0 and window W > 0 the clipper plans
\* ceil(D/W) clips; the command of clip i (0-based) starts at i*W, lasts W,
\* or D - (n-1)*W > 0 for the last one; the commands issued are contiguous from
\* 0, and a run in which every command succeeds has issued all n of them, which
\* cover [0, D) exactly.
C11_FixedWindowSegmentation ==
    (clp.total_duration > 0 /\ clp.clip_duration > 0) =>
        LET D == clp.total_duration
            W == clp.clip_duration
            n == CeilDiv(D, W)
            cmds == clp.cmds
        IN /\ (clp.pc = "loop" \/ ClipSucceeded) => clp.num_clips = n
           /\ Len(cmds) <= n
           /\ \A k \in 1..Len(cmds) :
                 /\ cmds[k].ss = (k - 1) * W
                 /\ cmds[k].t = IF k < n THEN W ELSE D - (n - 1) * W
                 /\ cmds[k].t > 0
                 /\ (k > 1 => cmds[k].ss = cmds[k - 1].ss + cmds[k - 1].t)
           /\ ClipSucceeded =>
                 /\ Len(cmds) = n
                 /\ cmds[1].ss = 0
                 /\ cmds[n].ss + cmds[n].t = D

C11_Witness ==
    /\ ClipSucceeded
    /\ clp.total_duration = 75
    /\ clp.clip_duration = 30
    /\ clp.cmds = <<[ss |-> 0, t |-> 30], [ss |-> 30, t |-> 30], [ss |-> 60, t |-> 15]>>

\* ------------------------------------------------------- downloader claims
Jobs == 1..dl.n
JobsWith(tag) == {j \in Jobs : dl.state[j] = "done" /\ dl.res[j][1] = tag}

\* C12: an exception in one download job never aborts the others: under
\* every interleaving of the workers main is never ended by a job, no link is
\* attempted twice, every finished job holds one OK or FAIL result for its own
\* link, and at the summary every link was attempted exactly once and the
\* success and failure counts are the numbers of OK and FAIL jobs, which sum
\* to the number of links.
C12_JobFailureIsolated ==
    /\ dl.pc # "aborted"
    /\ \A j \in Jobs :
          /\ dl.attempts[j] <= 1
          /\ dl.state[j] # "cancelled"
          /\ dl.state[j] = "done" =>
                dl.res[j] \in {<<"OK", LinkOf(j)>>, <<"FAIL", LinkOf(j), "exc">>}
    /\ dl.pc = "done" =>
          /\ \A j \in Jobs : dl.attempts[j] = 1 /\ dl.state[j] = "done"
          /\ Len(dl.results) = dl.n
          /\ \A j \in Jobs : dl.results[j] = dl.res[j]
          /\ dl.ok = Cardinality(JobsWith("OK"))
          /\ dl.fail = Cardinality(JobsWith("FAIL"))
          /\ dl.ok + dl.fail = dl.n

C12_Witness ==
    /\ dl.pc = "done"
    /\ dl.n = 3
    /\ dl.workers = 2
    /\ dl.completed = <<2, 1, 3>>
    /\ dl.res[2][1] = "FAIL"
    /\ dl.ok = 2
    /\ dl.fail = 1

PrintedJobs == dl.printed

\* C13 as claimed: the results are printed in the order in which the jobs
\* complete: what has been printed is the beginning of the completion order.
C13_PrintedInCompletionOrder == IsPrefix(PrintedJobs, dl.completed)

\* C13 as amended: the results are printed in the order of the job list: the
\* k results printed so far are those of the first k links, each printed after
\* its job finished, so a job that finished earlier but stands later in the
\* list is printed after the jobs before it.
C13_PrintedInInputOrder ==
    /\ \A k \in 1..Len(PrintedJobs) :
          /\ PrintedJobs[k] = k
          /\ dl.state[k] = "done"
          /\ dl.results[k] = dl.res[k]
    /\ Len(dl.results) = Len(PrintedJobs)

C13_Witness ==
    /\ dl.n = 2
    /\ dl.completed = <<2, 1>>
    /\ PrintedJobs = <<1, 2>>

\* --------------------------------------- batch analyzer claims, continued
PastSave == {"delay_check", "sleep", "loop", "download", "analyze", "append", "done"}

\* C14: a failed write of the result file ends the run: the run that failed
\* to save item i is aborted with the fetches and analyses of the items up to i
\* behind it and none of a later item, and a run goes on past a save only with
\* the whole accumulator in the file.
C14_SaveFailureFatal ==
    /\ hist.abortCause = "persistence" =>
          /\ an_pc \in {"aborted", "killed"}
          /\ idx \in 1..NumItems
          /\ hist.fetchCalls = idx
          /\ hist.analyzeCalls <= idx
          /\ hist.saved = idx - 1
    /\ (hist.writes > 0 /\ an_pc \in PastSave) =>
          /\ file.text = JsonDumps(results)
          /\ hist.saved = hist.writes

C14_Witness ==
    /\ an_pc = "aborted"
    /\ hist.abortCause = "persistence"
    /\ NumItems = 2
    /\ idx = 1
    /\ hist.fetchCalls = 1
    /\ file.exists
    /\ file.text # JsonDumps(results)

\* C15: when the result file is absent, cannot be parsed or is not a JSON
\* array, load_existing_results returns the empty sequence and the run does not
\* abort for it: the accumulator starts empty and a finished run has processed
\* every input item.
C15_BadResultFileStartsEmpty ==
    /\ hist.abortCause \in {None, "credential", "input", "persistence"}
    /\ hist.found \in {"absent", "unparsable", "not_list"} =>
          /\ hist.loaded = <<>>
          /\ (an_pc \in {"mkdir", "loop", "download", "analyze", "append"} =>
                Len(results) = hist.saved)
          /\ (an_pc = "done" =>
                /\ Len(results) = NumItems
                /\ hist.fetchCalls = NumItems
                /\ \A j \in 1..NumItems : results[j].url = input.items[j].url)

C15_Witness ==
    /\ an_pc = "done"
    /\ hist.found = "unparsable"
    /\ NumItems = 2
    /\ Len(results) = 2
    /\ OnDisk = results

\* the items whose record has been appended in this run
Appended == 1..Len(NewRecords)

\* C16: an item whose fetch failed gets a record with an "ERROR:" response
\* and goes straight to persistence: the analyzer is never called for it, so
\* the analyses made are those of the items whose fetch succeeded.
C16_FetchFailureSkipsAnalysis ==
    /\ an_pc = "analyze" => idx \notin hist.fetchFailed
    /\ hist.analyzeCalls <= hist.fetchCalls - Cardinality(hist.fetchFailed)
    /\ hist.analyzeFailed \cap hist.fetchFailed = {}
    /\ (an_pc = "append" /\ idx \in hist.fetchFailed) =>
          result = [url |-> CurrentItem.url, gemini_response |-> DownloadFailedResponse,
                    remarks |-> GetRemarks(CurrentItem)]
    /\ an_pc \in AfterLoad =>
          \A j \in Appended \cap hist.fetchFailed :
              StartsWithError(NewRecords[j].gemini_response)

C16_Witness ==
    /\ an_pc = "delay_check"
    /\ idx = 1
    /\ hist.fetchFailed = {1}
    /\ hist.analyzeCalls = 0
    /\ hist.saved = 1
    /\ StartsWithError(OnDisk[Len(OnDisk)].gemini_response)

\* C17: when the fetch succeeds and the analyzer raises, the exception does
\* not end the run: the item's record has a response starting with "ERROR:",
\* it is saved like any other, and the run goes on to the next item, so that a
\* finished run has fetched every item.
C17_AnalyzeFailureIsolated ==
    /\ hist.abortCause \in {None, "credential", "input", "persistence"}
    /\ an_pc \in AfterLoad =>
          \A j \in hist.analyzeFailed :
              /\ j \notin hist.fetchFailed
              /\ (j < idx \/ an_pc \in PastSave \ {"download", "analyze", "append"}) =>
                    /\ j \in Appended
                    /\ StartsWithError(NewRecords[j].gemini_response)
                    /\ NewRecords[j].url = input.items[j].url
                    /\ (an_pc # "save_write" =>
                          IsPrefix(SubSeq(results, 1, Len(hist.loaded) + j), OnDisk))
    /\ an_pc = "done" => hist.fetchCalls = NumItems /\ Len(NewRecords) = NumItems

C17_Witness ==
    /\ an_pc = "done"
    /\ NumItems = 2
    /\ hist.analyzeFailed = {1}
    /\ hist.fetchFailed = {}
    /\ hist.analyzeCalls = 2
    /\ StartsWithError(NewRecords[1].gemini_response)
    /\ ~StartsWithError(NewRecords[2].gemini_response)
    /\ OnDisk = results

\* C18: the items are processed one at a time and each is saved before the
\* next begins: while item i is fetched or analyzed, the records of the items
\* before it are all in the accumulator and, for i > 1, in the result file as
\* written by the last save; the fetches made never run ahead of the records
\* by more than the item in hand.
C18_PersistBeforeNext ==
    /\ an_pc \in {"download", "analyze"} =>
          /\ Len(NewRecords) = idx - 1
          /\ hist.saved = idx - 1
          /\ hist.fetchCalls \in {idx - 1, idx}
          /\ (idx > 1 => file.exists /\ file.text = JsonDumps(results))
    /\ an_pc \in AfterLoad => hist.fetchCalls - Len(NewRecords) \in {0, 1}
    /\ hist.analyzeCalls <= hist.fetchCalls

C18_Witness ==
    /\ an_pc = "download"
    /\ idx = 2
    /\ Len(hist.loaded) = 1
    /\ hist.saved = 1
    /\ Len(OnDisk) = 2
    /\ OnDisk[2].url = input.items[1].url

\* C19: the j-th record appended in a run is that of the j-th input item: it
\* has the item's url and the item's remarks, or the empty string when the item
\* has none; the new records follow the records loaded at startup.
C19_RecordsFollowInput ==
    an_pc \in AfterLoad =>
        /\ IsPrefix(hist.loaded, results)
        /\ Len(NewRecords) <= NumItems
        /\ \A j \in Appended :
              /\ NewRecords[j].url = input.items[j].url
              /\ NewRecords[j].remarks =
                    (IF input.items[j].remarks = NoField THEN "" ELSE input.items[j].remarks)

C19_Witness ==
    /\ an_pc = "done"
    /\ NumItems = 2
    /\ Len(hist.loaded) = 1
    /\ input.items[2].remarks = NoField
    /\ results[3].remarks = ""
    /\ results[2].remarks = "r1"
    /\ results[3].url = input.items[2].url

\* C20 as claimed: the run waits after saving item i exactly when i is not
\* the last item and the delay is not zero.
C20_DelayWhenNonZero ==
    /\ an_pc = "sleep" => idx < NumItems /\ delay # 0 /\ hist.saved = idx
    /\ (an_pc \in {"loop", "done"} /\ hist.abortCause = None) =>
          hist.sleeps = (IF delay # 0 THEN Min(idx, Max(NumItems - 1, 0)) ELSE 0)

\* C20 as amended: the run waits after saving item i exactly when i is not
\* the last item and the delay is above zero: it is in its wait only then and
\* with item i saved, and back at the head of the loop it has waited once per
\* item so far, never after the last one and never with a delay of zero or
\* below.
C20_DelayBetweenItems ==
    /\ an_pc = "sleep" => idx < NumItems /\ delay > 0 /\ hist.saved = idx
    /\ (an_pc \in {"loop", "done"} /\ hist.abortCause = None) =>
          hist.sleeps = (IF delay > 0 THEN Min(idx, Max(NumItems - 1, 0)) ELSE 0)
    /\ hist.sleeps <= hist.saved

C20_Witness ==
    /\ an_pc = "done"
    /\ NumItems = 2
    /\ delay = DefaultDelay
    /\ hist.sleeps = 1
    /\ hist.saved = 2

\* ---------------------------------------------------- Gemini analyzer claims
\* C21: generate_content is called only after the uploaded file has left
\* PROCESSING and is ACTIVE; a polling that ends in any other state makes the
\* analyzer raise, with no call of generate_content and no further poll: every
\* state seen before the last was PROCESSING.
C21_GenerateOnlyWhenActive ==
    /\ gem.generateCalls <= 1
    /\ (gem.generateCalls > 0 \/ gem.pc \in {"generate", "respond", "returned"}) =>
          gem.state = "ACTIVE"
    /\ \A k \in 1..(Len(gem.seen) - 1) : gem.seen[k] = "PROCESSING"
    /\ gem.polls \in {Len(gem.seen) - 1, Len(gem.seen)}
    /\ (gem.state \in FileStates \ {"PROCESSING", "ACTIVE"} /\ gem.pc # "poll") =>
          /\ gem.pc = "raised"
          /\ gem.cause = "state"
          /\ gem.generateCalls = 0

C21_Witness ==
    /\ gem.pc = "raised"
    /\ gem.cause = "state"
    /\ gem.seen = <<"PROCESSING", "FAILED">>
    /\ gem.polls = 1
    /\ gem.generateCalls = 0

\* resp has no text: no resp.text and no part with a text
EmptyResponse(resp) ==
    /\ resp.text = <<>>
    /\ \A k \in 1..Len(resp.parts) : resp.parts[k] = <<>>

\* C22: whenever the remote service answers with an empty response, the
\* analyzer raises and returns no value, so that the record of the item gets a
\* response starting with "ERROR:".
C22_EmptyResponseFails ==
    (gem.pc \in {"returned", "raised"} /\ gem.generateCalls > 0 /\ gem.cause = None
     /\ EmptyResponse(gem.resp)) =>
        /\ gem.pc = "raised"
        /\ StartsWithError(RecordResponse(gem))

\* C23: the pool is bounded: for every --workers value w, zero and negative
\* ones included, at most max(1, w) download jobs are in flight at any time, and
\* at most 4 with the default setting.
C23_PoolBounded ==
    LET inFlight == Cardinality({j \in Jobs : dl.state[j] = "running"})
        bound == IF dl.workers >= 1 THEN dl.workers ELSE 1
    IN /\ inFlight <= bound
       /\ (dl.workers = DefaultWorkers => inFlight <= 4)
       /\ (dl.workers <= 0 => inFlight <= 1)

C23_Witness ==
    /\ dl.workers = DefaultWorkers
    /\ dl.n = 5
    /\ Cardinality(InFlight(dl)) = 4
    /\ dl.state[5] = "queued"

\* ------------------------------------------------- cli claims, continued
\* the audio section has made its transcription attempt and is over
AfterTranscription == cli.pc = "exit" /\ cli.calls.transcribe > 0
ExtractedAudio == cli.audio_path = "temp.mp3"

\* C24 as claimed: a temporary audio file extracted from --video is gone
\* after the transcription attempt, whether it succeeded or raised, and the
\* user's --audio file is never removed.
C24_TempAudioRemoved ==
    /\ (AfterTranscription /\ ExtractedAudio) => ~cli.tempFile
    /\ cli.userAudio = (cli.args.audio # None)

\* C24 as amended: after the transcription attempt, whether it succeeded or
\* raised, the removal of the extracted temporary file has been attempted once,
\* and the file is gone unless that removal failed; the user's --audio file is
\* never removed and no removal is attempted when it was the one transcribed.
C24_TempAudioRemovalAttempted ==
    /\ (AfterTranscription /\ ExtractedAudio) =>
          /\ cli.transcribed \in {"ok", "raised"}
          /\ cli.calls.remove = 1
          /\ cli.tempFile = cli.removeFailed
    /\ cli.userAudio = (cli.args.audio # None)
    /\ (cli.audio_path # "temp.mp3" => cli.calls.remove = 0)

C24_Witness ==
    /\ AfterTranscription
    /\ ExtractedAudio
    /\ cli.transcribed = "raised"
    /\ cli.calls.remove = 1
    /\ ~cli.tempFile
    /\ cli.args.audio = None

\* -------------------------------------------------- clipper claims, continued
\* C25: clip_video stops at the first clip whose command fails: the commands
\* issued are those of the clips produced and, when one failed, the failed one
\* as the last, after which the function has returned False; it returns True
\* only with every computed clip produced.
C25_StopsAtFirstFailure ==
    /\ Len(clp.cmds) \in {clp.produced, clp.produced + 1}
    /\ Len(clp.cmds) = clp.produced + 1 =>
          /\ clp.pc = "returned"
          /\ ~clp.ret
          /\ clp.produced < clp.num_clips
    /\ ClipSucceeded =>
          /\ clp.produced = clp.num_clips
          /\ Len(clp.cmds) = clp.num_clips
    /\ (clp.pc = "returned" /\ clp.produced < clp.num_clips) => ~clp.ret

C25_Witness ==
    /\ clp.pc = "returned"
    /\ ~clp.ret
    /\ clp.num_clips = 3
    /\ clp.produced = 1
    /\ Len(clp.cmds) = 2

====
